---- MODULE Spec2Model ----
(***************************************************************************)
(* EmailGenie (app2.py): a Streamlit script that is re-executed from top   *)
(* to bottom on every user interaction.  The model has three parts:        *)
(*   - the profile store (save_profile / load_profiles) with the CSV       *)
(*     text that to_csv writes and read_csv parses, character by character *)
(*   - two sessions appending to the store concurrently                    *)
(*   - one session: session state, the buttons the last script run         *)
(*     rendered, and the handlers of the four buttons                      *)
(* Text is a sequence of one-character strings.                            *)
(***************************************************************************)
EXTENDS Integers, Sequences, FiniteSets, TLC

VARIABLES
    env,              \* what the import / getenv checks at the top of the script found
    messages,         \* st.session_state.messages
    email_generated,  \* st.session_state.email_generated
    profile,          \* st.session_state.profile
    file,             \* content of user_profiles.csv (<<>>: the file does not exist)
    rendered,         \* buttons on the page after the last script run
    last,             \* what the last script run did and displayed
    lastRequest,      \* last params handed to resend.Emails.send, NoRequest if none yet
    table,            \* load_profiles() after the last save_profile
    prevTable,        \* load_profiles() before the last save_profile
    lastSaved,        \* <<p>> for the argument p of the last save_profile, <<>> if none yet
    writers,          \* concurrent sessions inside save_profile
    initFile          \* store content before the concurrent saves

vars == <<env, messages, email_generated, profile, file, rendered, last,
          lastRequest, table, prevTable, lastSaved, writers, initFile>>

sessionVars == <<env, messages, email_generated, profile, rendered, last, lastRequest>>
storeVars == <<table, prevTable, lastSaved>>
concVars == <<writers, initFile>>

-----------------------------------------------------------------------------
(* Bounds *)

MaxStoreRows == 2     \* rows in the store, profile-store specification
MaxRows == 2          \* rows in the store, session specification
MaxMessages == 4      \* length of st.session_state.messages
MaxInitRows == 1      \* rows in the store before the concurrent saves

-----------------------------------------------------------------------------
(* Text and cells *)

COMMA == ","
QUOTE == "\""
NL == "\n"
CR == "\r"

EmptyStr == <<>>

\* the strings a form field takes in the model: empty, plain, and one that
\* holds every character the CSV writer has to quote
FieldValues == { EmptyStr, <<"a">>, <<",", QUOTE, NL>> }

ColumnNames == <<"Name", "Industry", "Company", "Target Audience">>
Columns == { ColumnNames[i] : i \in 1..Len(ColumnNames) }

\* a cell of a loaded table: a string, or NaN
Str(s) == <<"str", s>>
NaN == <<"nan", EmptyStr>>

\* read_csv's missing-value strings that FieldValues can produce
NaValues == { EmptyStr }

\* a profile as the Save Profile handler builds it: four strings
FormProfiles == [Columns -> FieldValues]

NoProfile == [c \in Columns |-> <<"absent", EmptyStr>>]

-----------------------------------------------------------------------------
(* to_csv(mode='a', index=False, header=False): csv.writer, QUOTE_MINIMAL *)

NeedsQuoting(s) == \E i \in 1..Len(s) : s[i] \in {COMMA, QUOTE, NL, CR}

RECURSIVE DoubleQuotes(_)
DoubleQuotes(s) ==
    IF s = <<>> THEN <<>>
    ELSE (IF Head(s) = QUOTE THEN <<QUOTE, QUOTE>> ELSE <<Head(s)>>)
         \o DoubleQuotes(Tail(s))

FormatField(s) ==
    IF NeedsQuoting(s) THEN <<QUOTE>> \o DoubleQuotes(s) \o <<QUOTE>> ELSE s

FormatRow(p) ==
    FormatField(p[ColumnNames[1]]) \o <<COMMA>> \o
    FormatField(p[ColumnNames[2]]) \o <<COMMA>> \o
    FormatField(p[ColumnNames[3]]) \o <<COMMA>> \o
    FormatField(p[ColumnNames[4]]) \o <<NL>>

\* a write on a file opened in append mode lands at the end of the file,
\* wherever the descriptor's own offset pos is
WriteAtPos(f, pos, data) ==
    SubSeq(f, 1, pos) \o data \o SubSeq(f, pos + Len(data) + 1, Len(f))

AppendWrite(f, pos, data) == f \o data

save_profile(f, p) == AppendWrite(f, Len(f), FormatRow(p))

-----------------------------------------------------------------------------
(* read_csv(names=[...]): tokenizer, then missing-value conversion *)

RECURSIVE Tokenize(_, _, _, _, _)
Tokenize(chars, state, field, row, rows) ==
    IF chars = <<>> THEN
        IF state = "start" /\ row = <<>> THEN rows
        ELSE Append(rows, Append(row, field))
    ELSE
        LET c == Head(chars)
            rest == Tail(chars)
            endField == Tokenize(rest, "start", <<>>, Append(row, field), rows)
            endRow == Tokenize(rest, "start", <<>>, <<>>, Append(rows, Append(row, field)))
        IN
        CASE state = "quoted" ->
                IF c = QUOTE
                THEN Tokenize(rest, "quote_in_quoted", field, row, rows)
                ELSE Tokenize(rest, "quoted", Append(field, c), row, rows)
          [] state = "quote_in_quoted" ->
                IF c = QUOTE THEN Tokenize(rest, "quoted", Append(field, c), row, rows)
                ELSE IF c = COMMA THEN endField
                ELSE IF c = NL THEN endRow
                ELSE Tokenize(rest, "field", Append(field, c), row, rows)
          [] OTHER ->
                IF c = COMMA THEN endField
                ELSE IF c = NL THEN
                    IF state = "start" /\ row = <<>>
                    THEN Tokenize(rest, "start", <<>>, <<>>, rows)  \* blank line
                    ELSE endRow
                ELSE IF c = QUOTE /\ state = "start"
                    THEN Tokenize(rest, "quoted", field, row, rows)
                ELSE Tokenize(rest, "field", Append(field, c), row, rows)

ToCell(s) == IF s \in NaValues THEN NaN ELSE Str(s)

ToRecord(fields) ==
    [c \in Columns |->
        LET i == CHOOSE j \in 1..Len(ColumnNames) : ColumnNames[j] = c
        IN IF i <= Len(fields) THEN ToCell(fields[i]) ELSE NaN]

read_csv(f) ==
    LET rows == Tokenize(f, "start", <<>>, <<>>, <<>>)
    IN [i \in 1..Len(rows) |-> ToRecord(rows[i])]

\* FileNotFoundError: the empty table with the four columns
load_profiles(f) == IF f = <<>> THEN <<>> ELSE read_csv(f)

\* the table row a profile of four strings is expected to load as
AsRow(p) == [c \in Columns |-> Str(p[c])]

MkProfile(n, i, c, t) ==
    [x \in Columns |->
        CASE x = "Name" -> n
          [] x = "Industry" -> i
          [] x = "Company" -> c
          [] OTHER -> t]

\* the profiles the two concurrent sessions save
SampleProfiles ==
    { MkProfile(<<"a">>, <<"a">>, <<"a">>, <<"a">>),
      MkProfile(EmptyStr, <<"a">>, EmptyStr, <<"a">>),
      MkProfile(<<"a">>, EmptyStr, <<"a">>, <<",", QUOTE, NL>>) }

\* the profiles typed into the form of the modelled session
SessionProfiles ==
    { MkProfile(<<"a">>, <<"a">>, <<",", QUOTE, NL>>, <<"a">>),
      MkProfile(EmptyStr, <<"a">>, EmptyStr, <<"a">>) }

-----------------------------------------------------------------------------
(* Values of the variables a specification does not use *)

NoRequest == [from |-> "", to |-> <<>>, subject |-> "", html |-> ""]

IdleSession ==
    /\ env = [DOTENV_INSTALLED |-> TRUE, RESEND_INSTALLED |-> TRUE,
              GROQ_API_KEY |-> TRUE, RESEND_API_KEY |-> TRUE]
    /\ messages = <<>>
    /\ email_generated = FALSE
    /\ profile = NoProfile
    /\ rendered = {}
    /\ last = [handler |-> "none", crashed |-> FALSE, status |-> 0,
               called |-> FALSE, entered |-> "", result |-> "none", reports |-> {}]
    /\ lastRequest = NoRequest

IdleStore == table = <<>> /\ prevTable = <<>> /\ lastSaved = <<>>

IdleConc == writers = <<>> /\ initFile = <<>>

-----------------------------------------------------------------------------
(* Profile store: save_profile followed by load_profiles *)

StoreInit ==
    /\ file = <<>>
    /\ IdleStore
    /\ IdleSession
    /\ IdleConc

StoreSave(p) ==
    /\ Len(table) < MaxStoreRows
    /\ file' = save_profile(file, p)
    /\ prevTable' = load_profiles(file)
    /\ table' = load_profiles(file')
    /\ lastSaved' = <<p>>
    /\ UNCHANGED <<sessionVars, concVars>>

StoreNext == \E p \in FormProfiles : StoreSave(p)

SpecStore == StoreInit /\ [][StoreNext]_vars

-----------------------------------------------------------------------------
(* Two sessions in save_profile at once, no lock *)

Sessions == {1, 2}

\* the stores the program can have written before the two saves start
RECURSIVE StoresOfRows(_)
StoresOfRows(n) ==
    IF n = 0 THEN { <<>> }
    ELSE { save_profile(f, p) : f \in StoresOfRows(n - 1), p \in SampleProfiles }

InitialStores == UNION { StoresOfRows(n) : n \in 0..MaxInitRows }

ConcInit ==
    /\ file \in InitialStores
    /\ initFile = file
    /\ writers \in [Sessions -> { [pc |-> "idle", row |-> p, pos |-> 0] : p \in SampleProfiles }]
    /\ IdleStore
    /\ IdleSession

\* open("user_profiles.csv", "a"): the descriptor starts at the end of the file
ConcOpen(s) ==
    /\ writers[s].pc = "idle"
    /\ writers' = [writers EXCEPT ![s].pc = "open", ![s].pos = Len(file)]
    /\ UNCHANGED <<file, initFile, sessionVars, storeVars>>

\* the row reaches the file in one write when the handle is closed
ConcWrite(s) ==
    /\ writers[s].pc = "open"
    /\ file' = AppendWrite(file, writers[s].pos, FormatRow(writers[s].row))
    /\ writers' = [writers EXCEPT ![s].pc = "closed"]
    /\ UNCHANGED <<initFile, sessionVars, storeVars>>

ConcNext == \E s \in Sessions : ConcOpen(s) \/ ConcWrite(s)

SpecConc == ConcInit /\ [][ConcNext]_vars

-----------------------------------------------------------------------------
(* One session: the script, run once per user interaction *)

DOTENV_INSTALLED == env.DOTENV_INSTALLED
RESEND_INSTALLED == env.RESEND_INSTALLED
GROQ_API_KEY == env.GROQ_API_KEY
RESEND_API_KEY == env.RESEND_API_KEY

\* the script gets past the st.stop() calls of its first lines
StartupOK == DOTENV_INSTALLED /\ GROQ_API_KEY

EmailAvailable_nokey == RESEND_INSTALLED

EmailAvailable == RESEND_INSTALLED /\ RESEND_API_KEY

FixedMailbox == "spam.vanshjain@gmail.com"
SenderAddress == "onboarding@resend.dev"

SystemMessage == [role |-> "system", content |-> "SYS"]

UserMessage_system(prompt) == [role |-> "system", content |-> prompt]

UserMessage(prompt) == [role |-> "user", content |-> prompt]

AssistantMessage(response) == [role |-> "assistant", content |-> response]

\* inputs of a script run
ProfileChoices == {"Load Existing Profile", "Create New Profile"}
Prompts == {"P1"}
Responses == {"R1", "R2"}
Statuses == {200, 500}
Subjects == {"Follow-up - Bob"}
UserRecipients == {FixedMailbox, "bob@example.com"}
ProviderOutcomes == {"dict_with_id", "dict_without_id", "not_a_dict", "none", "raise"}

Msg(level, text) == [level |-> level, text |-> text]

\* messages the top of the script displays on every run
Banner ==
    (IF ~RESEND_INSTALLED THEN {Msg("error", "Resend library is not installed")} ELSE {})
    \cup (IF RESEND_INSTALLED /\ ~RESEND_API_KEY
          THEN {Msg("warning", "RESEND_API_KEY is not set")} ELSE {})

\* the buttons a run renders when it reaches the end of the script
RenderAll(generated) ==
    {"Save Profile", "Generate Email", "Start Over"}
    \cup (IF generated THEN {"Send Email"} ELSE {})

\* the rows the selectbox can stand on
Selections(f) ==
    LET n == Len(load_profiles(f)) IN IF n = 0 THEN {1} ELSE 1..n

\* Step 1: the radio, the selectbox and the profile they leave in the session.
\* A selected name that is NaN matches no row and iloc[0] raises.
ProfileSetup(choice, sel, f) ==
    LET profiles == load_profiles(f)
        selected == profiles[sel]["Name"]
        matching == SelectSeq(profiles, LAMBDA r : r["Name"] = selected /\ selected # NaN)
    IN IF choice = "Load Existing Profile" /\ profiles # <<>>
       THEN IF matching = <<>>
            THEN [crashed |-> TRUE, profile |-> profile, reports |-> {}]
            ELSE [crashed |-> FALSE, profile |-> matching[1], reports |-> {}]
       ELSE [crashed |-> FALSE, profile |-> NoProfile,
             reports |-> IF choice = "Load Existing Profile"
                         THEN {Msg("warning", "No existing profiles found")} ELSE {}]

\* the run ends in the uncaught exception of Step 1: no button was rendered
Crashed ==
    /\ rendered' = {}
    /\ last' = [handler |-> "none", crashed |-> TRUE, status |-> 0,
                called |-> FALSE, entered |-> "", result |-> "none",
                reports |-> Banner \cup {Msg("error", "IndexError")}]
    /\ UNCHANGED <<messages, email_generated, profile, file, lastRequest>>

Init ==
    /\ env \in [{"DOTENV_INSTALLED", "RESEND_INSTALLED", "GROQ_API_KEY", "RESEND_API_KEY"} -> BOOLEAN]
    /\ messages = IF StartupOK THEN <<SystemMessage>> ELSE <<>>
    /\ email_generated = FALSE
    /\ profile = NoProfile
    /\ file = <<>>
    /\ rendered = IF StartupOK THEN RenderAll(FALSE) ELSE {}
    /\ last = [handler |-> "none", crashed |-> FALSE, status |-> 0,
               called |-> FALSE, entered |-> "", result |-> "none", reports |-> {}]
    /\ lastRequest = NoRequest
    /\ IdleStore
    /\ IdleConc

\* a widget other than a button changes: the script runs with no button pressed
Rerun(choice, sel) ==
    /\ StartupOK
    /\ LET setup == ProfileSetup(choice, sel, file) IN
       IF setup.crashed THEN Crashed
       ELSE /\ profile' = setup.profile
            /\ rendered' = RenderAll(email_generated)
            /\ last' = [handler |-> "none", crashed |-> FALSE, status |-> 0,
                        called |-> FALSE, entered |-> "", result |-> "none",
                        reports |-> Banner \cup setup.reports]
            /\ UNCHANGED <<messages, email_generated, file, lastRequest>>
    /\ UNCHANGED <<env, storeVars, concVars>>

SaveProfile(choice, sel, form) ==
    /\ "Save Profile" \in rendered
    /\ Len(load_profiles(file)) < MaxRows
    /\ LET setup == ProfileSetup(choice, sel, file) IN
       IF setup.crashed THEN Crashed
       ELSE /\ file' = save_profile(file, form)
            /\ profile' = AsRow(form)
            /\ rendered' = RenderAll(email_generated)
            /\ last' = [handler |-> "Save Profile", crashed |-> FALSE, status |-> 0,
                        called |-> FALSE, entered |-> "", result |-> "none",
                        reports |-> Banner \cup setup.reports
                                    \cup {Msg("success", "Profile saved successfully!")}]
            /\ UNCHANGED <<messages, email_generated, lastRequest>>
    /\ UNCHANGED <<env, storeVars, concVars>>

\* email_generated after the Generate Email handler
FlagAfterGenerate_early(status) == TRUE

FlagAfterGenerate(status) == IF status = 200 THEN TRUE ELSE email_generated

\* messages after the Generate Email handler: the prompt is appended before
\* the request is made, the answer after it came back with status 200
MessagesAfterGenerate(prompt, status, response) ==
    IF status = 200
    THEN messages \o <<UserMessage(prompt), AssistantMessage(response)>>
    ELSE Append(messages, UserMessage(prompt))

GenerateEmail(choice, sel, prompt, status, response) ==
    /\ "Generate Email" \in rendered
    /\ Len(MessagesAfterGenerate(prompt, status, response)) <= MaxMessages
    /\ LET setup == ProfileSetup(choice, sel, file) IN
       IF setup.crashed THEN Crashed
       ELSE /\ profile' = setup.profile
            /\ messages' = MessagesAfterGenerate(prompt, status, response)
            /\ email_generated' = FlagAfterGenerate(status)
            \* get_llm_response ends the run with st.stop() unless the status is 200
            /\ rendered' = IF status = 200 THEN RenderAll(TRUE)
                           ELSE {"Save Profile", "Generate Email"}
            /\ last' = [handler |-> "Generate Email", crashed |-> FALSE, status |-> status,
                        called |-> FALSE, entered |-> "", result |-> "none",
                        reports |-> Banner \cup setup.reports
                                    \cup (IF status = 200 THEN {}
                                          ELSE {Msg("error", "API request failed")})]
            /\ UNCHANGED <<file, lastRequest>>
    /\ UNCHANGED <<env, storeVars, concVars>>

\* the recipient the Send Email handler passes on
PinnedRecipient_entered(entered) == entered

PinnedRecipient(entered) == FixedMailbox

\* send_email: the call to the provider and what comes back from it
send_email(subject, body, recipient, outcome) ==
    IF ~EmailAvailable
    THEN [called |-> FALSE, request |-> NoRequest, result |-> "none",
          reports |-> {Msg("error", "Email sending is not available")}]
    ELSE [called |-> TRUE,
          request |-> [from |-> SenderAddress, to |-> <<recipient>>,
                       subject |-> subject, html |-> body],
          result |-> IF outcome = "raise" THEN "none" ELSE outcome,
          reports |-> IF outcome = "raise"
                      THEN {Msg("error", "Failed to send email: exception")} ELSE {}]

IsSuccess_notNone(result) == result # "none"

IsSuccess(result) == result = "dict_with_id"

\* what the Send Email handler displays for the value send_email returned
SendReport(result) ==
    IF result = "none" THEN Msg("error", "Failed to send email: email_result is None.")
    ELSE IF IsSuccess(result) THEN Msg("success", "Email sent successfully!")
    ELSE Msg("error", "Failed to send email: email_result does not have an 'id'.")

SendEmail(choice, sel, subject, entered, outcome) ==
    /\ "Send Email" \in rendered
    /\ LET setup == ProfileSetup(choice, sel, file) IN
       IF setup.crashed THEN Crashed
       ELSE /\ profile' = setup.profile
            /\ rendered' = RenderAll(email_generated)
            /\ IF email_generated /\ EmailAvailable
               THEN LET sent == send_email(subject, messages[Len(messages)].content,
                                           PinnedRecipient(entered), outcome)
                    IN /\ lastRequest' = IF sent.called THEN sent.request ELSE lastRequest
                       /\ last' = [handler |-> "Send Email", crashed |-> FALSE, status |-> 0,
                                   called |-> sent.called, entered |-> entered,
                                   result |-> IF sent.called THEN outcome ELSE "none",
                                   reports |-> Banner \cup setup.reports \cup sent.reports
                                               \cup {SendReport(sent.result)}]
               ELSE /\ lastRequest' = lastRequest
                    /\ last' = [handler |-> IF email_generated THEN "Send Email" ELSE "none",
                                crashed |-> FALSE, status |-> 0,
                                called |-> FALSE, entered |-> "", result |-> "none",
                                reports |-> Banner \cup setup.reports
                                    \cup (IF email_generated
                                          THEN {Msg("error", "Email sending is not available")}
                                          ELSE {})]
            /\ UNCHANGED <<messages, email_generated, file>>
    /\ UNCHANGED <<env, storeVars, concVars>>

\* what the Start Over handler writes into the session state
SessionReset_keepflag ==
    [messages |-> <<SystemMessage>>, email_generated |-> email_generated, profile |-> NoProfile]

SessionReset ==
    [messages |-> <<SystemMessage>>, email_generated |-> FALSE, profile |-> NoProfile]

\* Start Over resets the session state and st.rerun() runs the script again
StartOver(choice, sel) ==
    /\ "Start Over" \in rendered
    /\ LET setup == ProfileSetup(choice, sel, file) IN
       IF setup.crashed THEN Crashed
       ELSE /\ messages' = SessionReset.messages
            /\ email_generated' = SessionReset.email_generated
            /\ profile' = setup.profile
            /\ rendered' = RenderAll(SessionReset.email_generated)
            /\ last' = [handler |-> "Start Over", crashed |-> FALSE, status |-> 0,
                        called |-> FALSE, entered |-> "", result |-> "none",
                        reports |-> Banner \cup setup.reports]
            /\ UNCHANGED <<file, lastRequest>>
    /\ UNCHANGED <<env, storeVars, concVars>>

RerunStep ==
    \E choice \in ProfileChoices : \E sel \in Selections(file) : Rerun(choice, sel)

SaveProfileStep ==
    \E choice \in ProfileChoices : \E sel \in Selections(file) :
        \E form \in SessionProfiles : SaveProfile(choice, sel, form)

GenerateEmailStep ==
    \E choice \in ProfileChoices : \E sel \in Selections(file) :
        \E prompt \in Prompts : \E status \in Statuses :
            \E response \in (IF status = 200 THEN Responses ELSE {""}) :
                GenerateEmail(choice, sel, prompt, status, response)

SendEmailStep ==
    \E choice \in ProfileChoices : \E sel \in Selections(file) :
        \E subject \in Subjects : \E entered \in UserRecipients :
            \E outcome \in ProviderOutcomes :
                SendEmail(choice, sel, subject, entered, outcome)

StartOverStep ==
    \E choice \in ProfileChoices : \E sel \in Selections(file) : StartOver(choice, sel)

Next ==
    \/ RerunStep
    \/ SaveProfileStep
    \/ GenerateEmailStep
    \/ SendEmailStep
    \/ StartOverStep

Spec == Init /\ [][Next]_vars

-----------------------------------------------------------------------------
(* Properties *)

HasAssistant(msgs) == \E i \in 1..Len(msgs) : msgs[i].role = "assistant"

\* content of the most recent assistant message, "" if there is none
RECURSIVE LatestAssistantContent(_)
LatestAssistantContent(msgs) ==
    IF msgs = <<>> THEN ""
    ELSE IF msgs[Len(msgs)].role = "assistant" THEN msgs[Len(msgs)].content
    ELSE LatestAssistantContent(SubSeq(msgs, 1, Len(msgs) - 1))

SendHandlerRan == last.handler = "Send Email"
ProviderCalled == SendHandlerRan /\ last.called
SuccessShown == Msg("success", "Email sent successfully!") \in last.reports
ConfigFailureShown == Msg("error", "Email sending is not available") \in last.reports
DeliveryFailureShown ==
    \/ Msg("error", "Failed to send email: email_result is None.") \in last.reports
    \/ Msg("error", "Failed to send email: email_result does not have an 'id'.") \in last.reports

\* C1: a Generate Email run whose completion request is answered with a
\* status other than 200 leaves st.session_state.messages as it was before
\* the run (no user message, no assistant message appended).
FailedGenerationLeavesMessages ==
    [][(last'.handler = "Generate Email" /\ last'.status # 200)
        => messages' = messages]_vars

\* C2: in every state of a started session, messages is non-empty, its first
\* element has role system and no other element has role system.
OneLeadingSystemMessage ==
    StartupOK =>
        /\ Len(messages) >= 1
        /\ messages[1].role = "system"
        /\ \A i \in 2..Len(messages) : messages[i].role # "system"

\* C2 witness: a successful generation, later a failed one, and a profile saved
OneLeadingSystemMessageWitness ==
    /\ HasAssistant(messages)
    /\ messages[Len(messages)].role = "user"
    /\ file # <<>>

\* C3: after the Start Over handler ran, whatever the state before it,
\* messages is the list of the one initial system message and
\* email_generated is false.
StartOverResets ==
    last.handler = "Start Over" =>
        /\ messages = <<SystemMessage>>
        /\ email_generated = FALSE

\* C3 witness: Start Over pressed in a session that had generated and sent
StartOverResetsWitness ==
    /\ last.handler = "Start Over"
    /\ lastRequest # NoRequest

\* C4: with the resend library absent or RESEND_API_KEY unset, no request is
\* ever handed to the email provider and every Send Email run displays the
\* configuration failure and no success.
NoCredentialNoProviderCall ==
    (~env.RESEND_INSTALLED \/ ~env.RESEND_API_KEY) =>
        /\ lastRequest = NoRequest
        /\ ~last.called
        /\ SendHandlerRan => (ConfigFailureShown /\ ~SuccessShown)

\* C4 witness: Send Email pressed although the key is not set
NoCredentialNoProviderCallWitness ==
    /\ env.RESEND_INSTALLED
    /\ ~env.RESEND_API_KEY
    /\ SendHandlerRan

\* C5: a Send Email run displays success exactly when the provider call
\* returned, without raising, a dictionary with an id; every other run of
\* the handler displays a failure.
SuccessIffIdReturned ==
    SendHandlerRan =>
        /\ SuccessShown <=> (last.called /\ last.result = "dict_with_id")
        /\ ~SuccessShown => (DeliveryFailureShown \/ ConfigFailureShown)

\* C5 witness: the provider returned a dictionary without an id
SuccessIffIdReturnedWitness ==
    /\ ProviderCalled
    /\ last.result = "dict_without_id"
    /\ DeliveryFailureShown

\* C6: every request handed to the email provider has the fixed mailbox as
\* its only recipient, whatever the user entered as the recipient's email.
RecipientIsFixedMailbox ==
    /\ lastRequest # NoRequest => lastRequest.to = <<FixedMailbox>>
    /\ ProviderCalled => lastRequest.to = <<FixedMailbox>>

\* C6 witness: a request made while the form held another recipient
RecipientIsFixedMailboxWitness ==
    /\ ProviderCalled
    /\ last.entered # FixedMailbox
    /\ lastRequest.to = <<FixedMailbox>>

\* C7: save_profile(p) followed by load_profiles() gives a table with one
\* more row than before, the earlier rows unchanged and the last row equal
\* to p field for field, for every p of four strings (empty ones included).
SaveThenLoadReturnsSavedRow ==
    lastSaved # <<>> =>
        /\ Len(table) = Len(prevTable) + 1
        /\ SubSeq(table, 1, Len(prevTable)) = prevTable
        /\ table[Len(table)] = AsRow(lastSaved[1])

AllClosed == \A s \in Sessions : writers[s].pc = "closed"

\* C8: once both concurrent save_profile calls have returned, the store is
\* its earlier content followed by the two saved rows, whole, once each, in
\* one of the two orders; while one has returned, by that one row.
ConcurrentSavesKeepWholeRows ==
    LET row(s) == FormatRow(writers[s].row)
        closed == { s \in Sessions : writers[s].pc = "closed" }
    IN /\ closed = {} => file = initFile
       /\ \A s \in Sessions : closed = {s} => file = initFile \o row(s)
       /\ closed = Sessions =>
            file \in { initFile \o row(1) \o row(2), initFile \o row(2) \o row(1) }

\* C8 witness: both sessions had the file open before either wrote, the
\* second session's row was written first, and the rows differ
ConcurrentSavesKeepWholeRowsWitness ==
    /\ AllClosed
    /\ writers[1].pos = writers[2].pos
    /\ writers[1].row # writers[2].row
    /\ initFile # <<>>
    /\ file = initFile \o FormatRow(writers[2].row) \o FormatRow(writers[1].row)

\* C9: the body of every request the Send Email handler hands to the email
\* provider is the content of an assistant message, the text the most
\* recent successful generation returned.
SentBodyIsLatestGeneratedText ==
    ProviderCalled =>
        /\ lastRequest.html \in Responses
        /\ lastRequest.html = LatestAssistantContent(messages)

\* C10: email_generated is true exactly when messages holds an assistant
\* message, so the provider is only ever called in a session whose
\* messages hold a generated text.
FlagIffAssistantMessage ==
    /\ email_generated <=> HasAssistant(messages)
    /\ "Send Email" \in rendered => HasAssistant(messages)
    /\ ProviderCalled => HasAssistant(messages)

\* C10 witness: a request was made, and a failed generation came after the
\* successful one
FlagIffAssistantMessageWitness ==
    /\ ProviderCalled
    /\ email_generated
    /\ messages[Len(messages)].role = "user"

====
